---- MODULE Spec2Model ----
(***************************************************************************)
(* Model of src/src/main.cpp: a single-loop controller (loop) for a liquid *)
(* dispenser, preempted by one pin-change interrupt (buttonPressISR).      *)
(*                                                                         *)
(* Time is counted in milliseconds.  The program keeps time stamps         *)
(* (buttonPressStartTime, purgeEndTime, ...) and uses a stamp only in the  *)
(* difference millis() - stamp, which it compares with constants of at     *)
(* most LONG_PRESS_TIME.  The model keeps that difference for each stamp:  *)
(* taking a stamp sets it to 0, Tick adds the elapsed time to every one,   *)
(* and counting stops just above the largest constant the stamp is         *)
(* compared with, where no comparison of the program can change any more.  *)
(* NoStamp stands for the stamp value 0 that two handlers test for.        *)
(*                                                                         *)
(* Time is observed on a grid of one debounce period, at the durations of  *)
(* PressMarks: every constant a duration is compared with and Neighbours   *)
(* grid points below and above it.  The time since the last press began is *)
(* always one of them, so presses last 0, 50, 100, 1450, 1500, ... ms.     *)
(*                                                                         *)
(* heldFor is not a variable of the program: it is the time the button has *)
(* been down in the current press, or was down in the last one.  Nor are   *)
(* purgePressSeen and confirmingPress: they record what the handlers have  *)
(* read from the pin.                                                      *)
(*                                                                         *)
(* The interrupt handler runs to completion at the pin edge that raises    *)
(* it, so a pin edge and its handler are one action.  The main loop is cut *)
(* where it reads currentState, reads the pin, or blocks.                  *)
(*                                                                         *)
(* displayCalibrationProgress is called from nowhere in the program; it is *)
(* modelled on its own, one write to the display a step (SpecProgress).    *)
(***************************************************************************)
EXTENDS Integers, Naturals, FiniteSets, Sequences, TLC

(* ---- bounds of the exploration ---------------------------------------- *)
Neighbours == 1
MaxPercent == 100

(* ---- program constants ------------------------------------------------ *)
STEPS_PER_REVOLUTION == 400
DEBOUNCE_TIME == 50
LONG_PRESS_TIME == 5000
FAST_PRESS_TIME == 1500
totalRevolutions == 10
purgeDelay == 2000
MenuShortMin == 50
MenuLongMin == 2000
DebounceDelay == 50
AnalogMax == 1023
VolumeMin == 1
VolumeMax == 20
totalBlocks == 16
FilledBlock == 255
UnfilledBlock == 95

LOW == "LOW"
HIGH == "HIGH"
NoStamp == -1

SystemState == {"Idle", "CalibrationMenu", "Calibrating", "Purging", "Running", "Canceled"}

VARIABLES
    pin,                        \* digitalRead(BUTTON_PIN): LOW = pressed
    isButtonPressed,            \* global, written by the interrupt handler
    sincePressStart,            \* millis() - buttonPressStartTime (the global)
    currentState,
    previousState,
    pc,                         \* position of the main loop
    isWaitingForButtonRelease,  \* static of handleCalibrationMenuState
    sinceMenuPressStart,        \* millis() - buttonPressStartTime (the static of
                                \* handleCalibrationMenuState), NoStamp when it is 0
    isPurging,                  \* static of handlePurgingState
    sincePurgeEnd,              \* millis() - purgeEndTime, NoStamp when it is 0
    distanceToGo,               \* stepper.distanceToGo()
    measuredLiquid,             \* local of queryForMeasuredLiquid / handleCalibratingState
    sinceDelayStart,            \* time spent in the delay(50) in progress, else NoStamp
    eeprom,                     \* EEPROM cell at CALIBRATION_ADDR (one byte)
    heldFor,                    \* duration of the current (or else the last) press
    purgePressSeen,             \* handlePurgingState has read the pin LOW since
                                \* currentState became Purging
    confirmingPress,            \* the button is down in the press queryForMeasuredLiquid saw
    progressPercent,            \* argument of displayCalibrationProgress
    filledBlocks,               \* local of displayCalibrationProgress
    i,                          \* loop counter of displayCalibrationProgress
    lcdRow1,                    \* the cells written since lcd.setCursor(0, 1), in order
    progressPc                  \* position in displayCalibrationProgress

loopVars == <<pin, isButtonPressed, sincePressStart, currentState, previousState,
              pc, isWaitingForButtonRelease, sinceMenuPressStart, isPurging, sincePurgeEnd,
              distanceToGo, measuredLiquid, sinceDelayStart, eeprom, heldFor,
              purgePressSeen, confirmingPress>>

progressVars == <<progressPercent, filledBlocks, i, lcdRow1, progressPc>>

vars == <<loopVars, progressVars>>

isrVars == <<isButtonPressed, sincePressStart>>
menuVars == <<isWaitingForButtonRelease, sinceMenuPressStart>>
purgeVars == <<isPurging, sincePurgeEnd>>
calVars == <<distanceToGo, measuredLiquid, eeprom>>

InitLoop ==
    /\ pin = HIGH
    /\ isButtonPressed = FALSE
    /\ sincePressStart = 0
    /\ currentState = "Idle"
    /\ previousState = "Idle"
    /\ pc = "check"
    /\ isWaitingForButtonRelease = TRUE
    /\ sinceMenuPressStart = NoStamp
    /\ isPurging = FALSE
    /\ sincePurgeEnd = NoStamp
    /\ distanceToGo = 0
    /\ measuredLiquid = 0
    /\ sinceDelayStart = NoStamp
    /\ eeprom = 255                \* an erased cell
    /\ heldFor = NoStamp
    /\ purgePressSeen = FALSE
    /\ confirmingPress = FALSE

\* the state after setup(); displayCalibrationProgress is not called
Init ==
    /\ InitLoop
    /\ progressPercent = 0
    /\ filledBlocks = 0
    /\ i = 0
    /\ lcdRow1 = <<>>
    /\ progressPc = "rest"

\* a call displayCalibrationProgress(progressPercent) is about to be made
InitProgress ==
    /\ InitLoop
    /\ progressPercent \in 0..MaxPercent
    /\ filledBlocks = 0
    /\ i = 0
    /\ lcdRow1 = <<>>
    /\ progressPc = "call"

(* ---- pure functions --------------------------------------------------- *)

\* map() without its "+ out_min"
map_NoOffset(x, in_min, in_max, out_min, out_max) ==
    ((x - in_min) * (out_max - out_min)) \div (in_max - in_min)

\* Arduino map(): (x - in_min) * (out_max - out_min) / (in_max - in_min) + out_min
map(x, in_min, in_max, out_min, out_max) ==
    ((x - in_min) * (out_max - out_min)) \div (in_max - in_min) + out_min

\* (float)totalRevolutions / measuredLiquid, converted to the byte EEPROM.update takes
revolutionsPerML(measured, revolutions) == (revolutions \div measured) % 256

\* handleButtonPress without the test against DEBOUNCE_TIME
handleButtonPress_NoDebounce(pressDuration, state) ==
    IF pressDuration >= LONG_PRESS_TIME
    THEN "CalibrationMenu"
    ELSE IF pressDuration <= FAST_PRESS_TIME
         THEN IF state = "Idle" THEN "Running"
              ELSE IF state = "Running" THEN "Idle"
              ELSE state
         ELSE state

\* handleButtonPress with "<" for "<=" in the test against FAST_PRESS_TIME
handleButtonPress_FastExclusive(pressDuration, state) ==
    IF pressDuration >= DEBOUNCE_TIME
    THEN IF pressDuration >= LONG_PRESS_TIME
         THEN "CalibrationMenu"
         ELSE IF pressDuration < FAST_PRESS_TIME
              THEN IF state = "Idle" THEN "Running"
                   ELSE IF state = "Running" THEN "Idle"
                   ELSE state
              ELSE state
    ELSE state

\* handleButtonPress with a plain "else" for the long press: all that is not fast is long
handleButtonPress_LongIsNotFast(pressDuration, state) ==
    IF pressDuration >= DEBOUNCE_TIME
    THEN IF pressDuration <= FAST_PRESS_TIME
         THEN IF state = "Idle" THEN "Running"
              ELSE IF state = "Running" THEN "Idle"
              ELSE state
         ELSE "CalibrationMenu"
    ELSE state

\* handleButtonPress with a fast press cancelling what Idle and Running do not take
handleButtonPress_CancelOnFast(pressDuration, state) ==
    IF pressDuration >= DEBOUNCE_TIME
    THEN IF pressDuration >= LONG_PRESS_TIME
         THEN "CalibrationMenu"
         ELSE IF pressDuration <= FAST_PRESS_TIME
              THEN IF state = "Idle" THEN "Running"
                   ELSE IF state = "Running" THEN "Idle"
                   ELSE "Canceled"
              ELSE state
    ELSE state

\* handleButtonPress: the state the release of a press of pressDuration leaves
handleButtonPress(pressDuration, state) ==
    IF pressDuration >= DEBOUNCE_TIME
    THEN IF pressDuration >= LONG_PRESS_TIME
         THEN "CalibrationMenu"
         ELSE IF pressDuration <= FAST_PRESS_TIME
              THEN IF state = "Idle" THEN "Running"
                   ELSE IF state = "Running" THEN "Idle"
                   ELSE state
              ELSE state
    ELSE state

\* the state the CalibrationMenu handler leaves when it sees a press of pressDuration end
menuTransition(pressDuration, state) ==
    IF pressDuration >= MenuShortMin /\ pressDuration < MenuLongMin
    THEN "Calibrating"
    ELSE IF pressDuration >= MenuLongMin
         THEN "Purging"
         ELSE state

\* the grid on which time is observed
Grid == DEBOUNCE_TIME

\* the constants a duration is compared with
Thresholds == {DEBOUNCE_TIME, FAST_PRESS_TIME, MenuShortMin, MenuLongMin, purgeDelay,
               LONG_PRESS_TIME}

\* the durations from the start of a press at which time is observed
PressMarks ==
    {0} \cup {m \in {c + n * Grid : c \in Thresholds, n \in (0 - Neighbours)..Neighbours} : m > 0}

\* a coarser choice: the constants alone
CoarseMarks == {0} \cup Thresholds

\* the analog readings tried where not every reading is
AnalogSamples == {0, 511, AnalogMax}
AnalogReadings == 0..AnalogMax

Top(marks) == CHOOSE m \in marks : \A k \in marks : k <= m

\* the amounts by which time advances when since ms have passed since the press began
Steps(since, marks) ==
    IF since >= Top(marks)
    THEN {DebounceDelay, purgeDelay}
    ELSE {m - since : m \in {k \in marks : k > since}}

\* millis() - stamp, d later; counted up to top
Elapse(since, d, top) ==
    IF since = NoStamp THEN NoStamp
    ELSE IF since + d > top THEN top ELSE since + d

\* purgePressSeen after a step in which handlePurgingState read the pin LOW (observed)
\* or did not
purgePressSeenNext(observed) ==
    currentState = "Purging" /\ currentState' = "Purging" /\ (purgePressSeen \/ observed)

(* ---- the button and its interrupt ------------------------------------- *)

\* falling edge: buttonPressISR with digitalRead(BUTTON_PIN) == LOW
Press ==
    /\ pin = HIGH
    /\ pin' = LOW
    /\ heldFor' = 0
    /\ IF ~isButtonPressed
       THEN /\ sincePressStart' = 0
            /\ isButtonPressed' = TRUE
       ELSE UNCHANGED isrVars
    /\ UNCHANGED <<currentState, previousState, pc, menuVars, purgeVars, calVars,
                   sinceDelayStart>>
    /\ UNCHANGED <<purgePressSeen, confirmingPress, progressVars>>

\* rising edge: buttonPressISR with digitalRead(BUTTON_PIN) == HIGH
Release ==
    /\ pin = LOW
    /\ pin' = HIGH
    /\ IF isButtonPressed
       THEN /\ currentState' = handleButtonPress(sincePressStart, currentState)
            /\ isButtonPressed' = FALSE
       ELSE UNCHANGED <<currentState, isButtonPressed>>
    /\ UNCHANGED <<sincePressStart, previousState, pc, menuVars, purgeVars, calVars,
                   sinceDelayStart, heldFor>>
    /\ purgePressSeen' = purgePressSeenNext(FALSE)
    /\ confirmingPress' = FALSE
    /\ UNCHANGED progressVars

\* millis() advances by d
Tick(marks) ==
    \E d \in Steps(sincePressStart, marks) :
        /\ sincePressStart' = Elapse(sincePressStart, d, Top(marks))
        /\ sinceMenuPressStart' = Elapse(sinceMenuPressStart, d, MenuLongMin + Grid)
        /\ sincePurgeEnd' = Elapse(sincePurgeEnd, d, purgeDelay + Grid)
        /\ sinceDelayStart' = Elapse(sinceDelayStart, d, DebounceDelay + Grid)
        /\ heldFor' = IF pin = LOW THEN Elapse(heldFor, d, Top(marks)) ELSE heldFor
        /\ UNCHANGED <<pin, isButtonPressed, currentState, previousState, pc,
                       isWaitingForButtonRelease, isPurging, calVars>>
        /\ UNCHANGED <<purgePressSeen, confirmingPress, progressVars>>

(* ---- loop() ----------------------------------------------------------- *)

\* if (currentState != previousState)
LoopCheck ==
    /\ pc = "check"
    /\ pc' = IF currentState # previousState THEN "clear" ELSE "switch"
    /\ UNCHANGED <<pin, isrVars, currentState, previousState, menuVars, purgeVars,
                   calVars, sinceDelayStart, heldFor>>
    /\ UNCHANGED <<purgePressSeen, confirmingPress, progressVars>>

\* lcd.clear(); previousState = currentState;
LoopClear ==
    /\ pc = "clear"
    /\ previousState' = currentState
    /\ pc' = "switch"
    /\ UNCHANGED <<pin, isrVars, currentState, menuVars, purgeVars, calVars, sinceDelayStart, heldFor>>
    /\ UNCHANGED <<purgePressSeen, confirmingPress, progressVars>>

\* switch (currentState); handleCanceledState has an empty body
LoopSwitch ==
    /\ pc = "switch"
    /\ pc' = IF currentState = "Canceled" THEN "check" ELSE currentState
    /\ UNCHANGED <<pin, isrVars, currentState, previousState, menuVars, purgeVars,
                   calVars, sinceDelayStart, heldFor>>
    /\ UNCHANGED <<purgePressSeen, confirmingPress, progressVars>>

handleIdleState ==
    /\ pc = "Idle"
    /\ pc' = "check"
    /\ UNCHANGED <<pin, isrVars, currentState, previousState, menuVars, purgeVars,
                   calVars, sinceDelayStart, heldFor>>
    /\ UNCHANGED <<purgePressSeen, confirmingPress, progressVars>>

handleRunningState ==
    /\ pc = "Running"
    /\ pc' = "check"
    /\ UNCHANGED <<pin, isrVars, currentState, previousState, menuVars, purgeVars,
                   calVars, sinceDelayStart, heldFor>>
    /\ UNCHANGED <<purgePressSeen, confirmingPress, progressVars>>

handleCalibrationMenuState ==
    /\ pc = "CalibrationMenu"
    /\ pc' = "check"
    /\ LET waiting == IF isWaitingForButtonRelease /\ pin = HIGH
                      THEN FALSE ELSE isWaitingForButtonRelease
       IN  /\ isWaitingForButtonRelease' = waiting
           /\ IF ~waiting
              THEN IF pin = LOW
                   THEN /\ sinceMenuPressStart' =
                              IF sinceMenuPressStart = NoStamp THEN 0 ELSE sinceMenuPressStart
                        /\ UNCHANGED currentState
                   ELSE IF sinceMenuPressStart # NoStamp
                        THEN /\ sinceMenuPressStart' = NoStamp
                             /\ currentState' = menuTransition(sinceMenuPressStart, currentState)
                        ELSE UNCHANGED <<sinceMenuPressStart, currentState>>
              ELSE UNCHANGED <<sinceMenuPressStart, currentState>>
    /\ UNCHANGED <<pin, isrVars, previousState, purgeVars, calVars, sinceDelayStart, heldFor>>
    /\ purgePressSeen' = purgePressSeenNext(FALSE)
    /\ UNCHANGED <<confirmingPress, progressVars>>

\* handleCalibratingState -> runCalibrationMotor: stepper.move(totalSteps)
handleCalibratingState ==
    /\ pc = "Calibrating"
    /\ distanceToGo' = totalRevolutions * STEPS_PER_REVOLUTION
    /\ pc' = "motor"
    /\ UNCHANGED <<pin, isrVars, currentState, previousState, menuVars, purgeVars,
                   measuredLiquid, eeprom, sinceDelayStart, heldFor>>
    /\ UNCHANGED <<purgePressSeen, confirmingPress, progressVars>>

\* runCalibrationMotor followed at once by storeCalibrationValue, the query left out
runCalibrationMotor_NoQuery ==
    /\ pc = "motor"
    /\ IF distanceToGo # 0
       THEN /\ distanceToGo' = distanceToGo - STEPS_PER_REVOLUTION
            /\ pc' = pc
       ELSE /\ pc' = "store"
            /\ UNCHANGED distanceToGo
    /\ UNCHANGED <<pin, isrVars, currentState, previousState, menuVars, purgeVars,
                   measuredLiquid, eeprom, sinceDelayStart, heldFor>>
    /\ UNCHANGED <<purgePressSeen, confirmingPress, progressVars>>

\* while (stepper.distanceToGo() != 0) stepper.runSpeed();  one revolution a step; when
\* the run has ended, queryForMeasuredLiquid is entered: lcd.clear(); "Set liquid vol."
runCalibrationMotor ==
    /\ pc = "motor"
    /\ IF distanceToGo # 0
       THEN /\ distanceToGo' = distanceToGo - STEPS_PER_REVOLUTION
            /\ pc' = pc
       ELSE /\ pc' = "query"
            /\ UNCHANGED distanceToGo
    /\ UNCHANGED <<pin, isrVars, currentState, previousState, menuVars, purgeVars,
                   measuredLiquid, eeprom, sinceDelayStart, heldFor>>
    /\ UNCHANGED <<purgePressSeen, confirmingPress, progressVars>>

\* one turn of the while (true) of queryForMeasuredLiquid
queryForMeasuredLiquid(readings) ==
    /\ pc = "query"
    /\ measuredLiquid' \in {map(raw, 0, AnalogMax, VolumeMin, VolumeMax) : raw \in readings}
    /\ IF pin = LOW
       THEN /\ pc' = "queryDelay"
            /\ sinceDelayStart' = 0
       ELSE /\ pc' = pc
            /\ UNCHANGED sinceDelayStart
    /\ UNCHANGED <<pin, isrVars, currentState, previousState, menuVars, purgeVars,
                   distanceToGo, eeprom, heldFor>>
    /\ confirmingPress' = (pin = LOW)
    /\ UNCHANGED <<purgePressSeen, progressVars>>

\* the delay(50) of queryForMeasuredLiquid ends; break; return measuredLiquid
queryDebounce ==
    /\ pc = "queryDelay"
    /\ sinceDelayStart >= DebounceDelay
    /\ sinceDelayStart' = NoStamp
    /\ pc' = "store"
    /\ UNCHANGED <<pin, isrVars, currentState, previousState, menuVars, purgeVars, calVars, heldFor>>
    /\ UNCHANGED <<purgePressSeen, confirmingPress, progressVars>>

storeCalibrationValue ==
    /\ pc = "store"
    /\ IF measuredLiquid # 0
       THEN eeprom' = revolutionsPerML(measuredLiquid, totalRevolutions)
       ELSE eeprom' \in {0, 255}
    /\ pc' = "setIdle"
    /\ UNCHANGED <<pin, isrVars, currentState, previousState, menuVars, purgeVars,
                   distanceToGo, measuredLiquid, sinceDelayStart, heldFor>>
    /\ UNCHANGED <<purgePressSeen, confirmingPress, progressVars>>

\* currentState = Idle; at the end of handleCalibratingState
calibratingDone ==
    /\ pc = "setIdle"
    /\ currentState' = "Idle"
    /\ measuredLiquid' = 0
    /\ pc' = "check"
    /\ UNCHANGED <<pin, isrVars, previousState, menuVars, purgeVars, distanceToGo,
                   eeprom, sinceDelayStart, heldFor>>
    /\ purgePressSeen' = purgePressSeenNext(FALSE)
    /\ UNCHANGED <<confirmingPress, progressVars>>

handlePurgingState ==
    /\ pc = "Purging"
    /\ IF ~isPurging
       THEN /\ IF pin = LOW
               THEN /\ pc' = "purgeDelay"
                    /\ sinceDelayStart' = 0
               ELSE /\ pc' = "check"
                    /\ UNCHANGED sinceDelayStart
            /\ UNCHANGED <<purgeVars, currentState>>
       ELSE /\ pc' = "check"
            /\ UNCHANGED sinceDelayStart
            /\ IF pin = HIGH
               THEN IF sincePurgeEnd = NoStamp
                    THEN /\ sincePurgeEnd' = 0
                         /\ UNCHANGED <<isPurging, currentState>>
                    ELSE IF sincePurgeEnd > purgeDelay
                         THEN /\ isPurging' = FALSE
                              /\ currentState' = "Idle"
                              /\ UNCHANGED sincePurgeEnd
                         ELSE UNCHANGED <<purgeVars, currentState>>
               ELSE /\ sincePurgeEnd' = NoStamp
                    /\ UNCHANGED <<isPurging, currentState>>
    /\ UNCHANGED <<pin, isrVars, previousState, menuVars, calVars, heldFor>>
    /\ purgePressSeen' = purgePressSeenNext(pin = LOW)
    /\ UNCHANGED <<confirmingPress, progressVars>>

\* the delay(50) of handlePurgingState ends; isPurging = true; purgeEndTime = 0
purgeDebounce ==
    /\ pc = "purgeDelay"
    /\ sinceDelayStart >= DebounceDelay
    /\ sinceDelayStart' = NoStamp
    /\ isPurging' = TRUE
    /\ sincePurgeEnd' = NoStamp
    /\ pc' = "check"
    /\ UNCHANGED <<pin, isrVars, currentState, previousState, menuVars, calVars, heldFor>>
    /\ UNCHANGED <<purgePressSeen, confirmingPress, progressVars>>

\* the steps of loop() other than the reading of the potentiometer
Loop ==
    \/ LoopCheck
    \/ LoopClear
    \/ LoopSwitch
    \/ handleIdleState
    \/ handleRunningState
    \/ handleCalibrationMenuState
    \/ handleCalibratingState
    \/ runCalibrationMotor
    \/ queryDebounce
    \/ storeCalibrationValue
    \/ calibratingDone
    \/ handlePurgingState
    \/ purgeDebounce

Next ==
    \/ Press
    \/ Release
    \/ Tick(PressMarks)
    \/ queryForMeasuredLiquid(AnalogSamples)
    \/ Loop

Spec == Init /\ [][Next]_vars

\* every analog reading, on the coarser choice of durations
NextReadings ==
    \/ Press
    \/ Release
    \/ Tick(CoarseMarks)
    \/ queryForMeasuredLiquid(AnalogReadings)
    \/ Loop

SpecReadings == Init /\ [][NextReadings]_vars

(* ---- displayCalibrationProgress --------------------------------------- *)

\* displayCalibrationProgress with the number of filled blocks rounded to the nearest
displayCalibrationProgress_Rounded ==
    /\ progressPc = "call"
    /\ filledBlocks' = (progressPercent * totalBlocks + 50) \div 100
    /\ lcdRow1' = <<>>
    /\ i' = 0
    /\ progressPc' = "filled"
    /\ UNCHANGED <<progressPercent, loopVars>>

\* int filledBlocks = (progressPercent * totalBlocks) / 100; lcd.setCursor(0, 1); i = 0
displayCalibrationProgress ==
    /\ progressPc = "call"
    /\ filledBlocks' = (progressPercent * totalBlocks) \div 100
    /\ lcdRow1' = <<>>
    /\ i' = 0
    /\ progressPc' = "filled"
    /\ UNCHANGED <<progressPercent, loopVars>>

\* for (int i = 0; i < filledBlocks; ++i) lcd.write((byte)255);  then  i = filledBlocks
writeFilledBlock ==
    /\ progressPc = "filled"
    /\ IF i < filledBlocks
       THEN /\ lcdRow1' = Append(lcdRow1, FilledBlock)
            /\ i' = i + 1
            /\ progressPc' = progressPc
       ELSE /\ i' = filledBlocks
            /\ progressPc' = "unfilled"
            /\ UNCHANGED lcdRow1
    /\ UNCHANGED <<progressPercent, filledBlocks, loopVars>>

\* for (int i = filledBlocks; i < totalBlocks; ++i) lcd.write('_');
writeUnfilledBlock ==
    /\ progressPc = "unfilled"
    /\ IF i < totalBlocks
       THEN /\ lcdRow1' = Append(lcdRow1, UnfilledBlock)
            /\ i' = i + 1
            /\ progressPc' = progressPc
       ELSE /\ progressPc' = "done"
            /\ UNCHANGED <<lcdRow1, i>>
    /\ UNCHANGED <<progressPercent, filledBlocks, loopVars>>

NextProgress ==
    \/ displayCalibrationProgress
    \/ writeFilledBlock
    \/ writeUnfilledBlock

SpecProgress == InitProgress /\ [][NextProgress]_vars

TypeOK ==
    /\ pin \in {LOW, HIGH}
    /\ isButtonPressed = (pin = LOW)
    /\ currentState \in SystemState
    /\ previousState \in SystemState
    /\ eeprom \in 0..255

(* ======================================================================= *)
(* Properties                                                              *)
(* ======================================================================= *)

\* the step in which the button is released (its interrupt handler included)
ReleaseEdge == pin = LOW /\ pin' = HIGH

\* the step in which handleCalibrationMenuState runs
MenuHandlerStep == pc = "CalibrationMenu" /\ pc' = "check"

\* the steps in which lcd.clear() is called: in loop(), and on entry to
\* queryForMeasuredLiquid
lcdClear ==
    \/ pc = "clear" /\ pc' = "switch"
    \/ pc = "motor" /\ pc' = "query"

\* what a fast press does to a state
Toggled(state) ==
    IF state = "Idle" THEN "Running" ELSE IF state = "Running" THEN "Idle" ELSE state

StateTable ==
    {<<"Idle", "CalibrationMenu">>, <<"Idle", "Running">>,
     <<"CalibrationMenu", "Calibrating">>, <<"CalibrationMenu", "Purging">>,
     <<"Calibrating", "Idle">>, <<"Purging", "Idle">>, <<"Running", "Idle">>}

\* C1: every change of currentState, by the interrupt handler or by a state handler,
\* is one of the seven transitions of the state table.
C1_OnlyTableTransitions ==
    [][currentState' # currentState => <<currentState, currentState'>> \in StateTable]_vars

\* C2: Idle is left only at the release edge of a press: for CalibrationMenu a press
\* held at least 5000 ms, for Running a press held between 50 ms and 1500 ms.
C2_IdleLeftOnlyByClassifiedPress ==
    [][(currentState = "Idle" /\ currentState' # "Idle") =>
         /\ ReleaseEdge
         /\ \/ currentState' = "CalibrationMenu" /\ heldFor >= 5000
            \/ currentState' = "Running" /\ heldFor >= 50 /\ heldFor <= 1500]_vars

\* C2 witness: a press of 5000 ms has just been released in Idle and opened the menu.
C2_Witness ==
    /\ currentState = "CalibrationMenu"
    /\ previousState = "Idle"
    /\ eeprom = 255
    /\ pin = HIGH
    /\ heldFor = 5000
    /\ sincePressStart = 5000

\* C3: at the release of a press of duration d, 50 <= d <= 1500 toggles Idle and Running
\* and leaves every other state; d >= 5000 is long (it opens the calibration menu); a
\* duration in neither class changes nothing, so each duration is in one class.
C3_ReleaseClassified ==
    [][ReleaseEdge =>
         /\ (heldFor >= 50 /\ heldFor <= 1500) => currentState' = Toggled(currentState)
         /\ heldFor >= 5000 => currentState' = "CalibrationMenu"
         /\ (heldFor < 50 \/ (heldFor > 1500 /\ heldFor < 5000)) =>
               currentState' = currentState]_vars

\* C3 witness: a press of exactly 1500 ms has just toggled Running back to Idle.
C3_Witness ==
    /\ currentState = "Idle"
    /\ previousState = "Running"
    /\ pin = HIGH
    /\ heldFor = 1500
    /\ sincePressStart = 1500

\* C4: a press of less than 50 ms has no effect: its release leaves currentState, it
\* starts no purge, and it confirms no measured volume.
C4_NoisePressDiscarded ==
    [][/\ (ReleaseEdge /\ heldFor < 50) => currentState' = currentState
       /\ (~isPurging /\ isPurging') => ~(pin = HIGH /\ heldFor < 50)
       /\ (pc = "queryDelay" /\ pc' = "store") => ~(pin = HIGH /\ heldFor < 50)]_vars

\* C5 (as stated): a press of more than 1500 ms and less than 5000 ms is a no-op: neither
\* its release edge nor the CalibrationMenu handler that then sees it released changes
\* currentState.
C5_AmbiguousPressNoOp ==
    [][(heldFor > 1500 /\ heldFor < 5000 /\ pin' = HIGH /\ (ReleaseEdge \/ MenuHandlerStep))
          => currentState' = currentState]_vars

\* C5 (amended): the interrupt handler does not classify a press of more than 1500 ms
\* and less than 5000 ms: in every state its release edge leaves currentState unchanged.
C5_AmbiguousPressIgnoredAtRelease ==
    [][(ReleaseEdge /\ heldFor > 1500 /\ heldFor < 5000) => currentState' = currentState]_vars

\* C5 witness: a press of 2000 ms has just been released in Running, which is still the
\* state.
C5_Witness ==
    /\ currentState = "Running"
    /\ pin = HIGH
    /\ heldFor = 2000
    /\ sincePressStart = 2000

\* C6: in CalibrationMenu, once the entering press has been released, a press of
\* duration d decides when the handler sees it released (d as the handler measures it,
\* from the pass of the loop that first sees the button down to the pass that next sees
\* it up): 50 <= d < 2000 gives Calibrating, d >= 2000 gives Purging, d < 50 leaves
\* CalibrationMenu; and CalibrationMenu is never left while the button is held.
C6_MenuLeftByReleasedPress ==
    [][/\ (MenuHandlerStep /\ pin = HIGH /\ sinceMenuPressStart # NoStamp) =>
            /\ (sinceMenuPressStart >= 50 /\ sinceMenuPressStart < 2000) =>
                  currentState' = "Calibrating"
            /\ sinceMenuPressStart >= 2000 => currentState' = "Purging"
            /\ sinceMenuPressStart < 50 => currentState' = "CalibrationMenu"
       /\ (currentState = "CalibrationMenu" /\ currentState' # "CalibrationMenu") =>
            (pin = HIGH /\ pin' = HIGH)]_vars

\* C7: while the Calibrating handler runs the motor or waits for the confirming press,
\* the system stays in Calibrating.
C7_StaysInCalibratingUntilConfirmed ==
    pc \in {"motor", "query"} => currentState = "Calibrating"

\* C8: the stored value changes only in storeCalibrationValue, after the motor run has
\* ended and a volume has been confirmed, and it is written before the handler returns
\* to Idle; no other step changes it.  (EEPROM.update writes a cell only to change it.)
C8_StoredOnlyAtEndOfCalibration ==
    /\ [][eeprom' # eeprom =>
            /\ pc = "store" /\ pc' = "setIdle"
            /\ distanceToGo = 0
            /\ measuredLiquid \in 1..20]_vars
    /\ [](pc = "setIdle" => (measuredLiquid \in 1..20 /\ eeprom = 10 \div measuredLiquid))

\* C8 witness: a calibration with a confirmed volume of 10 ml has just stored 1 over the
\* erased cell and has not yet returned to Idle.
C8_Witness ==
    /\ pc = "setIdle"
    /\ measuredLiquid = 10
    /\ eeprom = 1
    /\ distanceToGo = 0

\* C9: after a completed calibration with confirmed volume v the stored value is the
\* exact ratio: stored * v = 10.
C9_StoredRatioExact ==
    pc = "setIdle" => eeprom * measuredLiquid = 10

\* C10: the volume queryForMeasuredLiquid returns, and storeCalibrationValue divides by,
\* is in 1..20 for every analog reading in 0..1023.
C10_MeasuredVolumeInRange ==
    pc \in {"queryDelay", "store", "setIdle"} => measuredLiquid \in 1..20

\* C10 witness: the largest reading, 1023, has been confirmed as 20 ml and is about to be
\* stored.
C10_Witness ==
    /\ pc = "store"
    /\ measuredLiquid = 20

\* C11: the display is cleared once for each change of currentState and never while the
\* state stays the same: lcd.clear() is called only when currentState differs from the
\* state the display was last cleared for (so not inside the Calibrating handler), and
\* every change of currentState leaves it different from that state, so that a clear
\* for it is still to come.
C11_ClearedOncePerTransition ==
    [][/\ lcdClear => currentState # previousState
       /\ currentState' # currentState => currentState' # previousState]_vars

\* the button is up and has been for more than d ms (the time since the press began,
\* less the time it lasted; once the former is no longer counted, the button has been
\* up for longer than the model can tell, which is taken as long enough)
ReleasedLongerThan(d) ==
    /\ pin = HIGH
    /\ heldFor # NoStamp
    /\ \/ sincePressStart - heldFor > d
       \/ sincePressStart >= Top(PressMarks)

\* C12: Purging is left only with the button up, after a press and its release, and
\* more than 2000 ms after that release: never while the button is held, never at its
\* release, and never within 2000 ms of it.
C12_PurgingLeftAfterSettle ==
    [][(currentState = "Purging" /\ currentState' # "Purging") =>
          (pin' = HIGH /\ ReleasedLongerThan(purgeDelay))]_vars

\* C13: currentState is never Canceled, whatever the button does and however far the
\* main loop has run.
C13_NeverCanceled ==
    currentState # "Canceled"

\* C13 witness: after a calibration has stored a value, a purge started from the menu
\* has just ended: the Purging handler has written Idle and loop() has not yet cleared
\* the display for it.
C13_Witness ==
    /\ currentState = "Idle"
    /\ previousState = "Purging"
    /\ eeprom # 255
    /\ ~isPurging
    /\ pc = "check"

\* C14: when displayCalibrationProgress(p) has returned, for p in 0..100, it has written
\* exactly 16 cells from column 0 of row 1: the first floor(p * 16 / 100) are filled
\* blocks (255) and all that follow are unfilled ('_', 95); 0 filled for p = 0, 8 filled
\* and 8 unfilled for p = 50, 16 filled for p = 100.
C14_ProgressBarCells ==
    (progressPc = "done" /\ progressPercent \in 0..100) =>
        /\ Len(lcdRow1) = 16
        /\ \A c \in 1..16 :
              lcdRow1[c] = IF c <= (progressPercent * 16) \div 100 THEN 255 ELSE 95
        /\ progressPercent = 0 => \A c \in 1..16 : lcdRow1[c] = 95
        /\ progressPercent = 50 => Cardinality({c \in 1..16 : lcdRow1[c] = 255}) = 8
                                  /\ Cardinality({c \in 1..16 : lcdRow1[c] = 95}) = 8
        /\ progressPercent = 100 => \A c \in 1..16 : lcdRow1[c] = 255

\* C14 witness: displayCalibrationProgress(50) has returned with 8 filled cells followed
\* by 8 unfilled ones.
C14_Witness ==
    /\ progressPc = "done"
    /\ progressPercent = 50
    /\ filledBlocks = 8
    /\ Len(lcdRow1) = 16
    /\ lcdRow1[8] = 255
    /\ lcdRow1[9] = 95

\* C15: whenever loop() invokes a state handler, the display has been cleared for the
\* state: in the step that dispatches, previousState equals currentState.
C15_ClearedBeforeDispatch ==
    [][(pc = "switch" /\ pc' # "switch") => previousState = currentState]_vars

\* the state whose handler the main loop is in
dispatchedState ==
    IF pc \in {"Calibrating", "motor", "query", "queryDelay", "store", "setIdle"}
    THEN "Calibrating"
    ELSE IF pc \in {"Purging", "purgeDelay"} THEN "Purging" ELSE pc

\* C16: a state handler never overwrites a value the interrupt handler has written to
\* currentState and the main loop has not yet dispatched on: a step of the main loop
\* (one that leaves the pin as it is) changes currentState only while currentState is
\* still the state whose handler is running.
C16_NoIsrWriteOverwritten ==
    [][(pin' = pin /\ currentState' # currentState) => currentState = dispatchedState]_vars

\* C17: handlePurgingState moves from Purging to Idle only if it has seen the button
\* pressed since currentState last became Purging.
C17_PurgeEndsOnlyAfterPressSeen ==
    [][(currentState = "Purging" /\ currentState' = "Idle") => purgePressSeen]_vars

\* C18: the motor driver is commanded only in Calibrating: distanceToGo changes, by
\* stepper.move or by a step of stepper.runSpeed, only while currentState is
\* Calibrating, and never in the step of a pin edge (the interrupt handler).
C18_MotorOnlyInCalibrating ==
    [][distanceToGo' # distanceToGo => (currentState = "Calibrating" /\ pin' = pin)]_vars

\* C19: the press that confirms the measured volume does nothing else: when that press
\* is released after the Calibrating handler has written Idle, the release leaves
\* currentState Idle, whatever the duration of the press.
C19_ConfirmingPressConsumed ==
    [][(ReleaseEdge /\ confirmingPress /\ pc \notin {"queryDelay", "store", "setIdle"}) =>
          (currentState = "Idle" /\ currentState' = "Idle")]_vars

\* C20: whenever currentState is not Purging, the static isPurging of handlePurgingState
\* is false.
C20_PurgeFlagResetOutsidePurging ==
    currentState # "Purging" => ~isPurging
====
